---- MODULE Spec2Model ----
(***************************************************************************)
(* pdf-form-fill: the two promise-returning adapters around pdftk,         *)
(* fields(pdf) and fill(pdf, fields, options), of src/index.js (the        *)
(* current revision, lines 67-217).                                        *)
(*                                                                         *)
(* A call is a record; every callback the code registers (fs.access,       *)
(* tmp.file, fs.write, the streams' 'data' / 'end' listeners) is one       *)
(* action that applies the callback's body to the record.  The environment *)
(* (file system results, pdftk's output, the order of stream events, the   *)
(* consumer of the resolved stream) is chosen nondeterministically.        *)
(***************************************************************************)
EXTENDS Integers, Sequences, FiniteSets, TLC

\* Most lines pdftk writes on stdout during one fields call.
MaxLines == 4
\* Most 'data' events of one stderr stream.
MaxErr == 2
\* Most chunks the fill_form process writes on stdout.
MaxChunks == 3

(***************************************************************************)
(* Values passed to callbacks, reject and resolve.                         *)
(***************************************************************************)
Null == [type |-> "null", msg |-> ""]
AccessError == [type |-> "Error", msg |-> "EACCES"]
TmpError == [type |-> "Error", msg |-> "tmp.file failed"]
WriteError == [type |-> "Error", msg |-> "EIO"]
StderrBuffer == [type |-> "Buffer", msg |-> "pdftk stderr"]
ZeroBytesMessage == [type |-> "string", msg |-> "xfdf wrote 0 bytes!"]
StdoutStream == [type |-> "stream", msg |-> "stdout"]

\* new Error(x.toString()): an Error whose message is the text of x.
NewError(x) == [type |-> "Error", msg |-> x.msg]

(***************************************************************************)
(* Promise: settles once; later resolve / reject calls have no effect.     *)
(***************************************************************************)
NewPromise == [state |-> "pending", value |-> Null]
NoPromise == [state |-> "none", value |-> Null]

PromiseReject(p, v) ==
  IF p.state = "pending" THEN [state |-> "rejected", value |-> v] ELSE p

PromiseResolve(p, v) ==
  IF p.state = "pending" THEN [state |-> "resolved", value |-> v] ELSE p

(***************************************************************************)
(* child_process.spawn: the arguments, and whether the tool started.       *)
(* A spawn that fails (tool missing) emits 'error' on the ChildProcess on  *)
(* the next tick.                                                          *)
(***************************************************************************)
SpawnResults == {"running", "failed"}

NoProc == [status |-> "none", args |-> <<>>, stdin |-> "none", errs |-> 0]

Spawn(args, stdin, status) ==
  [status |-> status, args |-> args, stdin |-> stdin, errs |-> 0]

(***************************************************************************)
(* The text pdftk dump_data_fields_utf8 writes: a sequence of lines.  A    *)
(* line [key, value] is the text "Field<key>: <value>"; the line with key  *)
(* "---" is the separator line; key "" is text that is no Field line.      *)
(***************************************************************************)
SepLine == [key |-> "---", value |-> ""]

FieldKeys == {"Name", "StateOption", "Type", "TYPE"}
FieldValues == {"a", "b"}

Lines ==
  {SepLine} \cup [key : FieldKeys, value : FieldValues]
            \cup {[key |-> "Name", value |-> "a---b"]}

\* The text of a value before and after the first "---" in it.
HasSeparator(v) == v = "a---b"
BeforeSeparator(v) == IF v = "a---b" THEN "a" ELSE v
AfterSeparator(v) == IF v = "a---b" THEN "b" ELSE ""

\* String.prototype.toLowerCase on the attribute names.
toLowerCase(k) ==
  CASE k = "Type" -> "type"
    [] k = "TYPE" -> "type"
    [] k = "Name" -> "name"
    [] k = "StateOption" -> "stateoption"
    [] OTHER -> k

\* output.split('---'): the blocks, each a sequence of lines.  A separator
\* inside a value cuts the line: the value's head stays, its tail starts
\* the next block as text that is no Field line.
RECURSIVE split(_)
split(output) ==
  IF output = <<>> THEN << <<>> >>
  ELSE LET l == Head(output)
           rest == split(Tail(output))
       IN  IF l = SepLine
             THEN << <<>> >> \o rest
           ELSE IF HasSeparator(l.value)
             THEN << <<[key |-> l.key, value |-> BeforeSeparator(l.value)]>> >>
                  \o << <<[key |-> "", value |-> AfterSeparator(l.value)]>> \o Head(rest) >>
                  \o Tail(rest)
           ELSE << <<l>> \o Head(rest) >> \o Tail(rest)

\* /^Field([a-z]+): (.*)/gim matches a line.
reMatches(l) == l.key \notin {"", "---"}

\* obj[key] = value
Put(obj, key, value) ==
  [k \in DOMAIN obj \cup {key} |-> IF k = key THEN value ELSE obj[k]]

EmptyObject == [k \in {} |-> Null]

\* switchKey with the options list built in reverse (unshift for push).
switchKeyPrepend(acc, ref, key, value) ==
  CASE key = "Name" ->
         [acc EXCEPT !.result = Put(acc.result, value, ref)]
    [] key = "StateOption" ->
         [acc EXCEPT !.data =
            Put(acc.data, "options",
                IF "options" \notin DOMAIN acc.data
                  THEN <<value>>
                  ELSE <<value>> \o acc.data["options"])]
    [] OTHER ->
         [acc EXCEPT !.data = Put(acc.data, toLowerCase(key), value)]

\* One pass of the while loop body: the switch on the matched key.
\* result maps a field name to a reference (the index of the block whose
\* data object it is); data is that block's object.
switchKey(acc, ref, key, value) ==
  CASE key = "Name" ->
         [acc EXCEPT !.result = Put(acc.result, value, ref)]
    [] key = "StateOption" ->
         [acc EXCEPT !.data =
            Put(acc.data, "options",
                IF "options" \notin DOMAIN acc.data
                  THEN <<value>>
                  ELSE Append(acc.data["options"], value))]
    [] OTHER ->
         [acc EXCEPT !.data = Put(acc.data, toLowerCase(key), value)]

\* while ((match = re.exec(field)) !== null) { ... }
RECURSIVE execLoop(_, _, _)
execLoop(acc, ref, field) ==
  IF field = <<>> THEN acc
  ELSE LET m == Head(field)
       IN  IF reMatches(m)
             THEN execLoop(switchKey(acc, ref, m.key, m.value), ref, Tail(field))
             ELSE execLoop(acc, ref, Tail(field))

\* output.split('---').forEach(field => { const data = {}; ... })
RECURSIVE forEachField(_, _, _, _)
forEachField(blocks, i, result, heap) ==
  IF i > Len(blocks) THEN [result |-> result, heap |-> heap]
  ELSE LET acc == execLoop([result |-> result, data |-> EmptyObject], i, blocks[i])
       IN  forEachField(blocks, i + 1, acc.result, Put(heap, i, acc.data))

\* The object the 'end' handler resolves with: every name with the data
\* object it references.
parseFields(output) ==
  LET r == forEachField(split(output), 1, EmptyObject, EmptyObject)
  IN  [n \in DOMAIN r.result |-> r.heap[r.result[n]]]

(***************************************************************************)
(* The metadata text block of update_info_utf8.  A Date is its UTC fields; *)
(* text is a string; an ISO date string is handled as its sequence of      *)
(* parts so that the two replace() calls act on it.                        *)
(***************************************************************************)
Undefined == [type |-> "undefined", text |-> ""]
Str(t) == [type |-> "string", text |-> t]
Date(Y, M, D, h, m, s, ms) ==
  [type |-> "Date", Y |-> Y, M |-> M, D |-> D, h |-> h, m |-> m, s |-> s, ms |-> ms]

Pad2(n) == IF n < 10 THEN "0" \o ToString(n) ELSE ToString(n)
Pad3(n) == IF n < 10 THEN "00" \o ToString(n)
           ELSE IF n < 100 THEN "0" \o ToString(n) ELSE ToString(n)
Pad4(n) == IF n < 1000 THEN "0" \o Pad3(n) ELSE ToString(n)

\* Date.prototype.toISOString: YYYY-MM-DDTHH:mm:ss.sssZ
toISOString(d) ==
  << Pad4(d.Y), "-", Pad2(d.M), "-", Pad2(d.D), "T",
     Pad2(d.h), ":", Pad2(d.m), ":", Pad2(d.s), ".", Pad3(d.ms), "Z" >>

\* The first replace with the T left out of the character class.
removeDashColon(parts) == SelectSeq(parts, LAMBDA p : p \notin {"-", ":"})

\* .replace(/[-:T]/g, '')
removeDashColonT(parts) == SelectSeq(parts, LAMBDA p : p \notin {"-", ":", "T"})

\* .replace(/\..*/, "Z00'00'")
RECURSIVE replaceFromDot(_)
replaceFromDot(parts) ==
  IF parts = <<>> THEN <<>>
  ELSE IF Head(parts) = "." THEN <<"Z00'00'">>
  ELSE <<Head(parts)>> \o replaceFromDot(Tail(parts))

RECURSIVE join(_)
join(parts) == IF parts = <<>> THEN "" ELSE Head(parts) \o join(Tail(parts))

Falsy(v) == v.type = "undefined" \/ (v.type = "string" /\ v.text = "")

pdfDate(date) ==
  IF Falsy(date) THEN Str("")
  ELSE IF date.type = "string" THEN date
  ELSE Str("D:" \o join(replaceFromDot(removeDashColonT(toISOString(date)))))

\* if (info.ModDate) info.ModDate = pdfDate(info.ModDate), same for CreationDate
normalizeDates(info) ==
  [i \in DOMAIN info |->
     IF info[i].key \in {"ModDate", "CreationDate"} /\ ~Falsy(info[i].value)
       THEN [key |-> info[i].key, value |-> pdfDate(info[i].value)]
       ELSE info[i]]

\* The text of a value inside the template literal, after `|| ''`.
valueOrEmpty(v) == IF Falsy(v) THEN "" ELSE v.text

RECURSIVE reduceKeys(_, _)
reduceKeys(str, info) ==
  IF info = <<>> THEN str
  ELSE reduceKeys(str \o << "InfoBegin",
                            "InfoKey: " \o Head(info).key,
                            "InfoValue: " \o valueOrEmpty(Head(info).value) >>,
                  Tail(info))

\* pdfInfo(info): the lines written to the update_info process.
pdfInfo(info) == reduceKeys(<<>>, normalizeDates(info))

\* options.info: absent, or a record given as its keys in order.
NoInfo == <<[key |-> "", value |-> Undefined]>>
InfoChoices ==
  { NoInfo,
    <<>>,
    <<[key |-> "Title", value |-> Str("T")]>>,
    <<[key |-> "ModDate", value |-> Date(2017, 3, 5, 7, 8, 9, 12)],
      [key |-> "CreationDate", value |-> Str("D:2017")]>>,
    <<[key |-> "CreationDate", value |-> Date(1999, 12, 31, 23, 59, 59, 999)],
      [key |-> "ModDate", value |-> Undefined],
      [key |-> "Author", value |-> Str("A")]>> }

(***************************************************************************)
(* stream.Readable, as far as fill uses it: the flowing flag, the internal *)
(* buffer, the 'data' listeners, and what each listener received.          *)
(***************************************************************************)
NewReadable ==
  [flowing |-> "null", buffer |-> <<>>, listener |-> FALSE, piped |-> FALSE,
   seen |-> <<>>, delivered |-> <<>>, dropped |-> <<>>]

(***************************************************************************)
(* State.                                                                  *)
(***************************************************************************)
VARIABLES
  fieldsCall,   \* the fields(pdf) call
  fillCall,     \* the fill(pdf, fields, options) call
  fillTwin      \* the same call with options.verbose negated, given the
                \* same callback results and stream events

vars == <<fieldsCall, fillCall, fillTwin>>

IdleFields ==
  [pc |-> "idle", promise |-> NoPromise, accessErr |-> Null, rejects |-> 0,
   pdftk |-> NoProc, uncaught |-> FALSE,
   output |-> <<>>, ended |-> FALSE]

IdleFill ==
  [pc |-> "idle", verbose |-> FALSE, optFlatten |-> "undefined",
   flatten |-> TRUE, info |-> NoInfo,
   promise |-> NoPromise, accessErr |-> Null, tmpErr |-> Null,
   writeResult |-> "none",
   console |-> <<>>, rejects |-> 0, resolves |-> 0,
   tmpFiles |-> 0, tmpFd |-> "none", spawned |-> <<>>,
   infoProc |-> NoProc, infoStdin |-> [text |-> <<>>, ended |-> FALSE],
   inputDestroyed |-> FALSE, inputListener |-> FALSE,
   fillProc |-> NoProc, emitted |-> <<>>, stdoutEnded |-> FALSE,
   stdout |-> NewReadable, uncaught |-> FALSE]

Init ==
  /\ fieldsCall = IdleFields
  /\ fillCall = IdleFill
  /\ fillTwin = IdleFill

(***************************************************************************)
(* fields(pdf)                                                             *)
(***************************************************************************)
\* fields: new Promise, fs.access(pdf, R_OK, cb)
fields ==
  /\ fieldsCall.pc = "idle"
  /\ fillCall.pc = "idle"
  /\ fieldsCall' = [fieldsCall EXCEPT !.pc = "access", !.promise = NewPromise]
  /\ UNCHANGED <<fillCall, fillTwin>>

\* fieldsAccessDone without the early return: the tool is spawned although
\* the path is unreadable.
fieldsAccessDoneNoReturn(c, err, status) ==
  [c EXCEPT !.pc = IF err # Null THEN "done" ELSE "spawned",
            !.accessErr = err,
            !.rejects = IF err # Null THEN @ + 1 ELSE @,
            !.promise = IF err # Null THEN PromiseReject(c.promise, err) ELSE @,
            !.pdftk = Spawn(<<"pdf", "dump_data_fields_utf8">>, "pipe", status)]

\* The fs.access callback.
fieldsAccessDone(c, err, status) ==
  IF err # Null
    THEN [c EXCEPT !.pc = "done", !.accessErr = err, !.rejects = @ + 1,
                   !.promise = PromiseReject(c.promise, err)]
    ELSE [c EXCEPT !.pc = "spawned",
                   !.pdftk = Spawn(<<"pdf", "dump_data_fields_utf8">>, "pipe", status)]

fieldsAccess ==
  /\ fieldsCall.pc = "access"
  /\ \E err \in {Null, AccessError}, status \in SpawnResults :
       fieldsCall' = fieldsAccessDone(fieldsCall, err, status)
  /\ UNCHANGED <<fillCall, fillTwin>>

\* The ChildProcess emits 'error'; no listener is registered for it, so
\* the emit throws and the exception is uncaught.
fieldsSpawnError ==
  /\ fieldsCall.pc = "spawned"
  /\ fieldsCall.pdftk.status = "failed"
  /\ fieldsCall' = [fieldsCall EXCEPT !.pc = "crashed", !.uncaught = TRUE]
  /\ UNCHANGED <<fillCall, fillTwin>>

\* stderr.on('data', (err) => reject(new Error(err.toString())))
fieldsStderrListener(c, err) ==
  [c EXCEPT !.pdftk.errs = @ + 1, !.rejects = @ + 1,
            !.promise = PromiseReject(c.promise, NewError(err))]

fieldsStderrData ==
  /\ fieldsCall.pc = "spawned"
  /\ fieldsCall.pdftk.status = "running"
  /\ fieldsCall.pdftk.errs < MaxErr
  /\ fieldsCall' = fieldsStderrListener(fieldsCall, StderrBuffer)
  /\ UNCHANGED <<fillCall, fillTwin>>

\* stdout.on('data', (chunk) => { output += chunk })
fieldsStdoutData ==
  /\ fieldsCall.pc = "spawned"
  /\ fieldsCall.pdftk.status = "running"
  /\ ~fieldsCall.ended
  /\ Len(fieldsCall.output) < MaxLines
  /\ \E chunk \in Lines :
       fieldsCall' = [fieldsCall EXCEPT !.output = Append(@, chunk)]
  /\ UNCHANGED <<fillCall, fillTwin>>

\* stdout.on('end', () => { ...; resolve(result) })
fieldsEndListener(c) ==
  [c EXCEPT !.ended = TRUE,
            !.promise = PromiseResolve(c.promise,
                          [type |-> "object", map |-> parseFields(c.output)])]

fieldsStdoutEnd ==
  /\ fieldsCall.pc = "spawned"
  /\ fieldsCall.pdftk.status = "running"
  /\ ~fieldsCall.ended
  /\ fieldsCall' = fieldsEndListener(fieldsCall)
  /\ UNCHANGED <<fillCall, fillTwin>>

NextFields ==
  \/ fields
  \/ fieldsAccess
  \/ fieldsSpawnError
  \/ fieldsStderrData
  \/ fieldsStdoutData
  \/ fieldsStdoutEnd

(***************************************************************************)
(* fill(pdf, fields, options)                                              *)
(***************************************************************************)
\* _reject without the instanceof test: the value is passed on as it is.
_rejectRaw(c, err) ==
  [c EXCEPT !.console = IF c.verbose THEN Append(@, "error") ELSE @,
            !.rejects = @ + 1,
            !.promise = PromiseReject(c.promise, err)]

\* _reject that returns after its verbose output.
_rejectVerboseOnly(c, err) ==
  LET e == IF err.type # "Error" THEN NewError(err) ELSE err
  IN  IF c.verbose
        THEN [c EXCEPT !.console = Append(@, "error"), !.rejects = @ + 1]
        ELSE [c EXCEPT !.rejects = @ + 1,
                       !.promise = PromiseReject(c.promise, e)]

\* const _reject = (err) => { ... }
_reject(c, err) ==
  LET e == IF err.type # "Error" THEN NewError(err) ELSE err
  IN  [c EXCEPT !.console = IF c.verbose THEN Append(@, "error") ELSE @,
                !.rejects = @ + 1,
                !.promise = PromiseReject(c.promise, e)]

\* const _resolve = (res) => { ... }
_resolve(c, res) ==
  [c EXCEPT !.console = IF c.verbose THEN Append(@, "timeEnd") ELSE @,
            !.resolves = @ + 1,
            !.promise = PromiseResolve(c.promise, res)]

\* options.flatten as the caller gives it: omitted (also when no options
\* are given), true or false.
FlattenOptions == {"undefined", "true", "false"}

\* The destructuring default with false for true.
flattenOptionDefaultFalse(opt) == opt = "true"

\* const { flatten = true, ... } = options
flattenOption(opt) == IF opt = "undefined" THEN TRUE ELSE opt = "true"

\* fill up to the fs.access call: the options' defaults, the verbose
\* label and timer, the xfdf builder, the promise.
fillStart(c, verbose, flatten, info) ==
  [c EXCEPT !.pc = "access", !.verbose = verbose, !.optFlatten = flatten,
            !.flatten = flattenOption(flatten),
            !.info = info,
            !.console = IF verbose THEN <<"log", "time">> ELSE <<>>,
            !.promise = NewPromise]

\* Calls are made one at a time: fill is the first call, or follows a
\* fields call that ended at its access check.
fill ==
  /\ fillCall.pc = "idle"
  /\ fieldsCall.pc \in {"idle", "done"}
  /\ \E verbose \in BOOLEAN, flatten \in FlattenOptions, info \in InfoChoices :
       /\ fillCall' = fillStart(fillCall, verbose, flatten, info)
       /\ fillTwin' = fillStart(fillTwin, ~verbose, flatten, info)
  /\ UNCHANGED fieldsCall

\* fs.access(pdf, fs.constants.R_OK, (err) => { ... })
fillAccessDone(c, err) ==
  IF err # Null
    THEN [_reject(c, err) EXCEPT !.pc = "done", !.accessErr = err]
    ELSE [c EXCEPT !.pc = "tmp"]

fillAccess ==
  /\ fillCall.pc = "access"
  /\ \E err \in {Null, AccessError} :
       /\ fillCall' = fillAccessDone(fillCall, err)
       /\ fillTwin' = fillAccessDone(fillTwin, err)
  /\ UNCHANGED fieldsCall

\* tmp.file((err, xfdf, fd) => { ... }): without an error the temporary
\* file exists when the callback runs.
fillTmpDone(c, err) ==
  IF err # Null
    THEN [_reject(c, err) EXCEPT !.pc = "done", !.tmpErr = err]
    ELSE [c EXCEPT !.pc = "write", !.tmpFiles = @ + 1, !.tmpFd = "open"]

fillTmpFile ==
  /\ fillCall.pc = "tmp"
  /\ \E err \in {Null, TmpError} :
       /\ fillCall' = fillTmpDone(fillCall, err)
       /\ fillTwin' = fillTmpDone(fillTwin, err)
  /\ UNCHANGED fieldsCall

\* const setInfo = (pdf, info, reject) => { ... }
setInfo(c, status) ==
  LET args == <<"pdf", "update_info_utf8", "-", "output", "-">>
  IN  [c EXCEPT !.infoProc = Spawn(args, "pipe", status),
                !.spawned = Append(@, args),
                !.inputListener = FALSE,
                !.infoStdin = [text |-> pdfInfo(c.info), ended |-> FALSE]]

\* fillForm without input.destroy().
fillFormNoDestroy(c, isInputStream, status) ==
  LET args == << IF isInputStream THEN "-" ELSE "pdf", "fill_form", "xfdf",
                 "output", "-" >>
              \o (IF c.flatten THEN <<"flatten">> ELSE <<>>)
  IN  [c EXCEPT !.fillProc = Spawn(args,
                               IF isInputStream THEN "update_info stdout" ELSE "pipe",
                               status),
                !.spawned = Append(@, args),
                !.stdout.listener = TRUE,
                !.stdout.flowing = "true"]

\* const fillForm = (input, xfdf, flatten, reject, resolve) => { ... }
\* stdout.on('data', listener) switches the stream to flowing mode.
fillForm(c, isInputStream, status) ==
  LET args == << IF isInputStream THEN "-" ELSE "pdf", "fill_form", "xfdf",
                 "output", "-" >>
              \o (IF c.flatten THEN <<"flatten">> ELSE <<>>)
  IN  [c EXCEPT !.fillProc = Spawn(args,
                               IF isInputStream THEN "update_info stdout" ELSE "pipe",
                               status),
                !.spawned = Append(@, args),
                !.inputDestroyed = isInputStream,
                !.stdout.listener = TRUE,
                !.stdout.flowing = "true"]

\* fillWriteDone that closes and removes the temporary file when it
\* rejects.
fillWriteDoneCleanup(c, err, written, infoStatus, fillStatus) ==
  IF err # Null
    THEN [_reject(c, err) EXCEPT !.pc = "done", !.writeResult = "error",
                                 !.tmpFiles = @ - 1, !.tmpFd = "closed"]
  ELSE IF written = 0
    THEN [_reject(c, ZeroBytesMessage) EXCEPT !.pc = "done", !.writeResult = "zero",
                                              !.tmpFiles = @ - 1, !.tmpFd = "closed"]
  ELSE LET w == [c EXCEPT !.pc = "spawned", !.writeResult = "written"]
       IN  IF c.info # NoInfo
             THEN fillForm(setInfo(w, infoStatus), TRUE, fillStatus)
             ELSE fillForm(w, FALSE, fillStatus)

\* fillWriteDone with the tools spawned before err and written are tested.
fillWriteDoneSpawnsFirst(c, err, written, infoStatus, fillStatus) ==
  LET w == IF c.info # NoInfo
             THEN fillForm(setInfo(c, infoStatus), TRUE, fillStatus)
             ELSE fillForm(c, FALSE, fillStatus)
  IN  IF err # Null
        THEN [_reject(w, err) EXCEPT !.pc = "done", !.writeResult = "error"]
      ELSE IF written = 0
        THEN [_reject(w, ZeroBytesMessage) EXCEPT !.pc = "done", !.writeResult = "zero"]
      ELSE [w EXCEPT !.pc = "spawned", !.writeResult = "written"]

\* fillWriteDone without the test of written.
fillWriteDoneNoZeroTest(c, err, written, infoStatus, fillStatus) ==
  IF err # Null
    THEN [_reject(c, err) EXCEPT !.pc = "done", !.writeResult = "error"]
  ELSE LET w == [c EXCEPT !.pc = "spawned",
                          !.writeResult = IF written = 0 THEN "zero" ELSE "written"]
       IN  IF c.info # NoInfo
             THEN fillForm(setInfo(w, infoStatus), TRUE, fillStatus)
             ELSE fillForm(w, FALSE, fillStatus)

\* fs.write(fd, xfdfBuilder.generate(), (err, written) => { ... })
fillWriteDone(c, err, written, infoStatus, fillStatus) ==
  IF err # Null
    THEN [_reject(c, err) EXCEPT !.pc = "done", !.writeResult = "error"]
  ELSE IF written = 0
    THEN [_reject(c, ZeroBytesMessage) EXCEPT !.pc = "done", !.writeResult = "zero"]
  ELSE LET w == [c EXCEPT !.pc = "spawned", !.writeResult = "written"]
       IN  IF c.info # NoInfo
             THEN fillForm(setInfo(w, infoStatus), TRUE, fillStatus)
             ELSE fillForm(w, FALSE, fillStatus)

WriteResults ==
  { [err |-> WriteError, written |-> 0],
    [err |-> Null, written |-> 0],
    [err |-> Null, written |-> 1] }

fillWrite ==
  /\ fillCall.pc = "write"
  /\ \E r \in WriteResults, infoStatus \in SpawnResults, fillStatus \in SpawnResults :
       /\ fillCall.info = NoInfo => infoStatus = "running"
       /\ fillCall' = fillWriteDone(fillCall, r.err, r.written, infoStatus, fillStatus)
       /\ fillTwin' = fillWriteDone(fillTwin, r.err, r.written, infoStatus, fillStatus)
  /\ UNCHANGED fieldsCall

\* Both tools started and the call is waiting for their stream events.
Streaming(c) ==
  /\ c.pc = "spawned"
  /\ c.infoProc.status # "failed"
  /\ c.fillProc.status # "failed"

\* A ChildProcess that failed to start emits 'error'; neither setInfo nor
\* fillForm registers a listener for it, so the emit throws and the
\* exception is uncaught.
spawnErrorEvent(c) == [c EXCEPT !.pc = "crashed", !.uncaught = TRUE]

fillSpawnError ==
  /\ fillCall.pc = "spawned"
  /\ ~Streaming(fillCall)
  /\ fillCall' = spawnErrorEvent(fillCall)
  /\ fillTwin' = spawnErrorEvent(fillTwin)
  /\ UNCHANGED fieldsCall

\* stdin.write(pdfInfo(info), 'utf8', () => stdin.end())
infoWriteDone(c) == [c EXCEPT !.infoStdin.ended = TRUE]

fillInfoStdinWritten ==
  /\ Streaming(fillCall)
  /\ fillCall.infoProc.status = "running"
  /\ ~fillCall.infoStdin.ended
  /\ fillCall' = infoWriteDone(fillCall)
  /\ fillTwin' = infoWriteDone(fillTwin)
  /\ UNCHANGED fieldsCall

\* setInfo: stderr.on('data', reject)
infoStderrListener(c, data) ==
  _reject([c EXCEPT !.infoProc.errs = @ + 1], data)

fillInfoStderrData ==
  /\ Streaming(fillCall)
  /\ fillCall.infoProc.status = "running"
  /\ fillCall.infoProc.errs < MaxErr
  /\ fillCall' = infoStderrListener(fillCall, StderrBuffer)
  /\ fillTwin' = infoStderrListener(fillTwin, StderrBuffer)
  /\ UNCHANGED fieldsCall

\* A stderr listener that starts the fill stage again before it rejects.
fillStderrListenerRetry(c, data) ==
  _reject(fillForm([c EXCEPT !.fillProc.errs = @ + 1],
                   c.info # NoInfo, "running"), data)

\* fillForm: stderr.on('data', reject)
fillStderrListener(c, data) ==
  _reject([c EXCEPT !.fillProc.errs = @ + 1], data)

fillStderrData ==
  /\ Streaming(fillCall)
  /\ fillCall.fillProc.errs < MaxErr
  /\ fillCall' = fillStderrListener(fillCall, StderrBuffer)
  /\ fillTwin' = fillStderrListener(fillTwin, StderrBuffer)
  /\ UNCHANGED fieldsCall

\* listener without stdout.unshift(data).
listenerNoUnshift(c, data) ==
  _resolve([c EXCEPT !.stdout.seen = Append(@, data),
                     !.stdout.flowing = "false",
                     !.stdout.listener = FALSE],
           StdoutStream)

\* const listener = (data) => { pause; unshift; removeListener; resolve }
listener(c, data) ==
  _resolve([c EXCEPT !.stdout.seen = Append(@, data),
                     !.stdout.flowing = "false",
                     !.stdout.buffer = <<data>> \o @,
                     !.stdout.listener = FALSE],
           StdoutStream)

\* The stream receives a chunk from the process: in flowing mode with an
\* empty buffer it is emitted as 'data' at once, otherwise it is buffered.
readablePush(c, chunk) ==
  LET e == [c EXCEPT !.emitted = Append(@, chunk)]
  IN  IF c.stdout.flowing = "true" /\ c.stdout.buffer = <<>>
        THEN IF c.stdout.listener THEN listener(e, chunk)
             ELSE IF c.stdout.piped
               THEN [e EXCEPT !.stdout.delivered = Append(@, chunk)]
             ELSE [e EXCEPT !.stdout.dropped = Append(@, chunk)]
        ELSE [e EXCEPT !.stdout.buffer = Append(@, chunk)]

fillStdoutData ==
  /\ Streaming(fillCall)
  /\ ~fillCall.stdoutEnded
  /\ Len(fillCall.emitted) < MaxChunks
  /\ LET chunk == Len(fillCall.emitted) + 1
     IN  /\ fillCall' = readablePush(fillCall, chunk)
         /\ fillTwin' = readablePush(fillTwin, chunk)
  /\ UNCHANGED fieldsCall

\* The fill_form process closes its stdout.
stdoutEnd(c) == [c EXCEPT !.stdoutEnded = TRUE]

fillStdoutEnd ==
  /\ Streaming(fillCall)
  /\ ~fillCall.stdoutEnded
  /\ fillCall' = stdoutEnd(fillCall)
  /\ fillTwin' = stdoutEnd(fillTwin)
  /\ UNCHANGED fieldsCall

\* The caller: fill(...).then(stream => stream.pipe(output)).  pipe()
\* resumes the paused stream.
consumerPipe(c) ==
  IF c.promise.state = "resolved"
    THEN [c EXCEPT !.stdout.piped = TRUE, !.stdout.flowing = "true"]
    ELSE c

fillConsumerPipe ==
  /\ fillCall.promise.state = "resolved"
  /\ ~fillCall.stdout.piped
  /\ fillCall' = consumerPipe(fillCall)
  /\ fillTwin' = consumerPipe(fillTwin)
  /\ UNCHANGED fieldsCall

\* flow(): the resumed stream emits its buffered chunks in order.
readableFlow(c) ==
  IF c.stdout.flowing = "true" /\ c.stdout.buffer # <<>>
    THEN LET chunk == Head(c.stdout.buffer)
             d == [c EXCEPT !.stdout.buffer = Tail(@)]
         IN  IF c.stdout.listener THEN listener(d, chunk)
             ELSE IF c.stdout.piped
               THEN [d EXCEPT !.stdout.delivered = Append(@, chunk)]
             ELSE [d EXCEPT !.stdout.dropped = Append(@, chunk)]
    ELSE c

fillConsumerRead ==
  /\ fillCall.stdout.piped
  /\ fillCall.stdout.flowing = "true"
  /\ fillCall.stdout.buffer # <<>>
  /\ fillCall' = readableFlow(fillCall)
  /\ fillTwin' = readableFlow(fillTwin)
  /\ UNCHANGED fieldsCall

NextFill ==
  \/ fill
  \/ fillAccess
  \/ fillTmpFile
  \/ fillWrite
  \/ fillSpawnError
  \/ fillInfoStdinWritten
  \/ fillInfoStderrData
  \/ fillStderrData
  \/ fillStdoutData
  \/ fillStdoutEnd
  \/ fillConsumerPipe
  \/ fillConsumerRead

Next == NextFields \/ NextFill

Spec == Init /\ [][Next]_vars

(***************************************************************************)
(* Properties.                                                             *)
(***************************************************************************)
Settled(c) == c.promise.state \in {"resolved", "rejected"}

\* C1: when the readability check of the source path fails, fields and fill
\* reject with the file-access error, no pdftk process is spawned, and fill
\* creates no temporary file.
C1_UnreadableRejectsBeforeSpawn ==
  /\ fieldsCall.accessErr # Null =>
       /\ fieldsCall.promise = [state |-> "rejected", value |-> fieldsCall.accessErr]
       /\ fieldsCall.pdftk = NoProc
  /\ fillCall.accessErr # Null =>
       /\ fillCall.promise = [state |-> "rejected", value |-> fillCall.accessErr]
       /\ fillCall.spawned = <<>>
       /\ fillCall.infoProc = NoProc
       /\ fillCall.fillProc = NoProc
       /\ fillCall.tmpFiles = 0

C1_Witness ==
  /\ fieldsCall.accessErr = AccessError
  /\ fieldsCall.promise.state = "rejected"
  /\ fillCall.accessErr = AccessError
  /\ fillCall.promise.state = "rejected"

\* C2: the stream fill resolves with yields every chunk the fill_form
\* process emitted, in order, the first included: what the consumer has
\* received followed by what the stream still buffers is what was emitted;
\* the adapter's listener received the first chunk only and is detached,
\* and no chunk was emitted to nobody.
C2_StreamYieldsAllChunks ==
  fillCall.promise.state = "resolved" =>
    /\ fillCall.stdout.delivered \o fillCall.stdout.buffer = fillCall.emitted
    /\ fillCall.stdout.seen = <<Head(fillCall.emitted)>>
    /\ ~fillCall.stdout.listener
    /\ fillCall.stdout.dropped = <<>>
    /\ ~fillCall.stdout.piped => fillCall.stdout.flowing = "false"

C2_Witness ==
  /\ fillCall.promise.state = "resolved"
  /\ fillCall.stdoutEnded
  /\ Len(fillCall.emitted) >= 3
  /\ fillCall.stdout.delivered = fillCall.emitted

\* C3: a fill call whose fill_form process wrote to stderr is never
\* resolved.
C3_StderrNeverResolved ==
  fillCall.fillProc.errs > 0 => fillCall.promise.state # "resolved"

\* C4: a fields call whose process wrote to stderr is rejected, never
\* resolved with a field mapping.
C4_FieldsStderrRejects ==
  fieldsCall.pdftk.errs > 0 => fieldsCall.promise.state = "rejected"

\* C5: every failure of a call (access failure, spawn failure, stderr
\* output, zero-byte write, temporary-file create or write failure) leaves
\* the call's promise rejected.
FieldsFailed ==
  \/ fieldsCall.accessErr # Null
  \/ fieldsCall.uncaught
  \/ fieldsCall.pdftk.errs > 0

FillFailed ==
  \/ fillCall.accessErr # Null
  \/ fillCall.tmpErr # Null
  \/ fillCall.writeResult \in {"error", "zero"}
  \/ fillCall.uncaught
  \/ fillCall.infoProc.errs > 0
  \/ fillCall.fillProc.errs > 0

C5_EveryFailureRejects ==
  /\ FieldsFailed => fieldsCall.promise.state = "rejected"
  /\ FillFailed => fillCall.promise.state = "rejected"

\* C6 as stated: the failure path (reject, _reject) is taken at most once
\* per call.
C6_FailurePathAtMostOnce ==
  /\ fieldsCall.rejects <= 1
  /\ fillCall.rejects <= 1

\* C6 as amended: every failure event (a failed access check, temporary
\* file or write, and each stderr chunk of either process) takes the
\* failure path exactly once, so a call may take it several times; the
\* promise settles at most once, a rejected call never resolves, and no
\* stage's process is spawned a second time.
FailureEvents(c) ==
  (IF c.accessErr # Null THEN 1 ELSE 0)
  + (IF c.tmpErr # Null THEN 1 ELSE 0)
  + (IF c.writeResult \in {"error", "zero"} THEN 1 ELSE 0)
  + c.infoProc.errs + c.fillProc.errs

SpawnedOnce(c) ==
  \A i, j \in 1..Len(c.spawned) : c.spawned[i][2] = c.spawned[j][2] => i = j

C6_FailureTerminal ==
  /\ [](/\ fillCall.rejects = FailureEvents(fillCall)
        /\ fieldsCall.rejects
             = (IF fieldsCall.accessErr # Null THEN 1 ELSE 0) + fieldsCall.pdftk.errs
        /\ SpawnedOnce(fillCall))
  /\ [][/\ Settled(fillCall) => fillCall'.promise = fillCall.promise
        /\ Settled(fieldsCall) => fieldsCall'.promise = fieldsCall.promise]_vars

C6_Witness ==
  /\ fillCall.rejects >= 2
  /\ fillCall.promise.state = "rejected"
  /\ fillCall.resolves = 1
  /\ Len(fillCall.spawned) = 2

\* C7: whenever fields or fill is rejected, the rejection value is an Error.
C7_RejectsWithError ==
  /\ fieldsCall.promise.state = "rejected" => fieldsCall.promise.value.type = "Error"
  /\ fillCall.promise.state = "rejected" => fillCall.promise.value.type = "Error"

C7_Witness ==
  /\ fillCall.promise.state = "rejected"
  /\ fillCall.promise.value = NewError(StderrBuffer)
  /\ fillCall.infoProc.errs > 0

\* C8: a write that reports no error and zero bytes rejects fill with the
\* 'xfdf wrote 0 bytes!' error, which is not the file-system error, and
\* neither process is spawned.
C8_ZeroByteWrite ==
  fillCall.writeResult = "zero" =>
    /\ fillCall.promise = [state |-> "rejected", value |-> NewError(ZeroBytesMessage)]
    /\ fillCall.promise.value # WriteError
    /\ fillCall.spawned = <<>>
    /\ fillCall.infoProc = NoProc
    /\ fillCall.fillProc = NoProc

C8_Witness ==
  /\ fillCall.writeResult = "zero"
  /\ fillCall.promise.state = "rejected"
  /\ fillCall.tmpFiles = 1

\* C9: the mapping fields resolves with: every FieldName line of a block has
\* an entry, and every entry is the record of a block that names it, where a
\* block's record holds under 'options' the values of its FieldStateOption
\* lines in input order and under each lower-cased attribute key the value
\* of the block's last line with that key.
Indices(block, P(_)) == {i \in 1..Len(block) : reMatches(block[i]) /\ P(block[i])}

NamesOf(block) ==
  {block[i].value : i \in Indices(block, LAMBDA l : l.key = "Name")}

OptionsOf(block) ==
  LET opts == SelectSeq(block, LAMBDA l : reMatches(l) /\ l.key = "StateOption")
  IN  [i \in 1..Len(opts) |-> opts[i].value]

IsAttribute(l) == l.key \notin {"Name", "StateOption"}

AttributeKeys(block) == {toLowerCase(block[i].key) : i \in Indices(block, IsAttribute)}

LastValue(block, k) ==
  LET is == Indices(block, LAMBDA l : IsAttribute(l) /\ toLowerCase(l.key) = k)
  IN  block[CHOOSE i \in is : \A j \in is : j <= i].value

RecordOf(block) ==
  [k \in AttributeKeys(block)
         \cup (IF OptionsOf(block) # <<>> THEN {"options"} ELSE {}) |->
     IF k = "options" THEN OptionsOf(block) ELSE LastValue(block, k)]

C9_ParsedMapping ==
  fieldsCall.promise.state = "resolved" =>
    LET map == fieldsCall.promise.value.map
        blocks == split(fieldsCall.output)
    IN  /\ \A b \in 1..Len(blocks) : NamesOf(blocks[b]) \subseteq DOMAIN map
        /\ \A n \in DOMAIN map :
             \E b \in 1..Len(blocks) :
               /\ n \in NamesOf(blocks[b])
               /\ map[n] = RecordOf(blocks[b])

C9_Witness ==
  /\ fieldsCall.promise.state = "resolved"
  /\ fieldsCall.promise.value.map =
       [n \in {"a"} |-> [k \in {"options", "type"} |->
                           IF k = "options" THEN <<"b", "a">> ELSE "b"]]
  /\ Len(fieldsCall.output) = 4
  /\ fieldsCall.output[4].key = "TYPE"

\* C10: verbose only adds console output: the call and its twin, which
\* differ in options.verbose alone and see the same events, agree on the
\* promise, the spawned processes and the stream.
Observable(c) == [c EXCEPT !.verbose = FALSE, !.console = <<>>]

C10_VerboseObservabilityOnly == Observable(fillCall) = Observable(fillTwin)

C10_Witness ==
  /\ fillCall.verbose
  /\ ~fillTwin.verbose
  /\ fillCall.promise.state = "rejected"
  /\ fillTwin.promise.state = "rejected"
  /\ fillCall.console = <<"log", "time", "error", "timeEnd">>
  /\ fillTwin.console = <<>>

\* C11: the fill_form command ends with the flatten directive exactly when
\* options.flatten is true or omitted, whether the source is the path or
\* the update_info stream.
HasFlatten(args) == \E i \in 1..Len(args) : args[i] = "flatten"

C11_FlattenDirective ==
  fillCall.fillProc # NoProc =>
    /\ HasFlatten(fillCall.fillProc.args) <=> fillCall.optFlatten \in {"undefined", "true"}
    /\ fillCall.fillProc.args[2] = "fill_form"
    /\ fillCall.fillProc.args[1] = (IF fillCall.info # NoInfo THEN "-" ELSE "pdf")
    /\ HasFlatten(fillCall.fillProc.args) =>
         fillCall.fillProc.args[Len(fillCall.fillProc.args)] = "flatten"

C11_Witness ==
  /\ fillCall.optFlatten = "undefined"
  /\ fillCall.info # NoInfo
  /\ fillCall.fillProc.status = "running"
  /\ fillCall.fillProc.args = <<"-", "fill_form", "xfdf", "output", "-", "flatten">>

\* C12: without a metadata record one process is spawned, fill_form on the
\* path; with one, two are spawned, update_info first and then fill_form
\* with source '-' and the update_info stdout as its stdin, and the adapter
\* destroys its handle on that stream when it spawns fill_form and has no
\* listener on it.  Never more than two processes.
Alive(c) ==
  (IF c.infoProc.status = "running" THEN 1 ELSE 0)
  + (IF c.fillProc.status = "running" THEN 1 ELSE 0)

DateKeys == {"ModDate", "CreationDate"}

ExpectedValue(kv) ==
  IF kv.value.type = "Date" /\ kv.key \in DateKeys
    THEN "D:" \o Pad4(kv.value.Y) \o Pad2(kv.value.M) \o Pad2(kv.value.D)
              \o Pad2(kv.value.h) \o Pad2(kv.value.m) \o Pad2(kv.value.s)
              \o "Z00'00'"
  ELSE IF kv.value.type = "undefined" THEN ""
  ELSE kv.value.text

C13_InfoTextBlock ==
  /\ fillCall.infoProc # NoProc =>
       LET text == fillCall.infoStdin.text
           info == fillCall.info
       IN  /\ Len(text) = 3 * Len(info)
           /\ \A i \in 1..Len(info) :
                /\ text[3 * i - 2] = "InfoBegin"
                /\ text[3 * i - 1] = "InfoKey: " \o info[i].key
                /\ text[3 * i] = "InfoValue: " \o ExpectedValue(info[i])
  /\ fillCall.infoStdin.ended => fillCall.infoProc.status = "running"
  /\ fillCall.infoProc = NoProc => fillCall.infoStdin.text = <<>>

C13_Witness ==
  /\ fillCall.infoStdin.ended
  /\ fillCall.infoStdin.text =
       << "InfoBegin", "InfoKey: CreationDate", "InfoValue: D:19991231235959Z00'00'",
          "InfoBegin", "InfoKey: ModDate", "InfoValue: ",
          "InfoBegin", "InfoKey: Author", "InfoValue: A" >>

\* C14 as stated: a fill call whose source path is readable has created
\* exactly one temporary file once it is past the tmp.file step.
PastTmpFile(c) == c.pc \notin {"idle", "access", "tmp"}

OutputToStdout(args) == args[4] = "output" /\ args[5] = "-"

StepOrder ==
  { <<"idle", "access">>,
    <<"access", "tmp">>, <<"access", "done">>,
    <<"tmp", "write">>, <<"tmp", "done">>,
    <<"write", "spawned">>, <<"write", "done">>,
    <<"spawned", "crashed">> }

StepState(c) ==
  /\ c.pc = "tmp" =>
       (c.accessErr = Null /\ c.tmpFiles = 0 /\ c.writeResult = "none" /\ c.spawned = <<>>)
  /\ c.pc = "write" =>
       /\ c.accessErr = Null /\ c.tmpErr = Null /\ c.tmpFiles = 1
       /\ c.writeResult = "none" /\ c.spawned = <<>>
  /\ c.spawned # <<>> =>
       /\ c.writeResult = "written" /\ c.tmpFiles = 1
       /\ c.spawned[Len(c.spawned)][2] = "fill_form"
       /\ c.info # NoInfo => c.spawned[1][2] = "update_info_utf8"
  /\ c.promise.state = "resolved" =>
       (c.pc = "spawned" /\ Len(c.emitted) >= 1 /\ c.stdout.seen = <<c.emitted[1]>>)

C15_StepOrder ==
  /\ []StepState(fillCall)
  /\ [][/\ fillCall'.pc # fillCall.pc => <<fillCall.pc, fillCall'.pc>> \in StepOrder
        /\ fillCall'.spawned # fillCall.spawned =>
             (fillCall.pc = "write" /\ fillCall'.writeResult = "written")
        /\ (fillCall.promise.state = "pending" /\ fillCall'.promise.state = "resolved") =>
             (fillCall.emitted = <<>> /\ Len(fillCall'.emitted) = 1)]_vars

C15_Witness ==
  /\ fillCall.promise.state = "resolved"
  /\ fillCall.info # NoInfo
  /\ Len(fillCall.spawned) = 2
  /\ fillCall.emitted = <<1>>
  /\ fillCall.writeResult = "written"

\* C16: the mapping fields resolves with has exactly the FieldName values
\* of the tool's output as its keys, and the entry of a name is the record
\* of the last block (between separator lines) that names it, holding that
\* block's attributes only.
RECURSIVE SeparatorLineBlocks(_)
SeparatorLineBlocks(output) ==
  IF output = <<>> THEN << <<>> >>
  ELSE LET rest == SeparatorLineBlocks(Tail(output))
       IN  IF Head(output) = SepLine
             THEN << <<>> >> \o rest
             ELSE << <<Head(output)>> \o Head(rest) >> \o Tail(rest)

FieldNameValues(output) ==
  {output[i].value : i \in {j \in 1..Len(output) : output[j].key = "Name"}}

LastBlockNaming(blocks, n) ==
  CHOOSE b \in 1..Len(blocks) :
    /\ n \in NamesOf(blocks[b])
    /\ \A b2 \in 1..Len(blocks) : n \in NamesOf(blocks[b2]) => b2 <= b

C16_KeyDiscipline ==
  fieldsCall.promise.state = "resolved" =>
    LET map == fieldsCall.promise.value.map
        blocks == SeparatorLineBlocks(fieldsCall.output)
    IN  /\ DOMAIN map = FieldNameValues(fieldsCall.output)
        /\ \A n \in DOMAIN map :
             map[n] = RecordOf(blocks[LastBlockNaming(blocks, n)])

====
